---- MODULE Spec2Model ----
(***************************************************************************)
(* A model of the fetch_tivo_recordings Ansible module                     *)
(* (src/fetch_tivo_recordings.py): discovery of the recordings on the TiVo *)
(* (get_tivo_recording_info), the lookup of season and episode numbers on  *)
(* The TVDB (get_season_episode_num), the naming, skipping and download of *)
(* each recording (download_tivo_recording) and the loop of main; and of   *)
(* the strip_tivo_protection module (src/strip_tivo_protection.py): the    *)
(* choice of the videos to strip, tivo_to_mpg and the loop of its main.    *)
(*                                                                         *)
(* Python strings are sequences of one-character strings, so that          *)
(* concatenation, case folding and splitext are computed, not assumed.     *)
(* Python dicts are records whose domain is the set of keys present, so    *)
(* that d.get(k) of a missing key is "k \notin DOMAIN d".                  *)
(***************************************************************************)
EXTENDS Integers, Sequences, FiniteSets, TLC

\* ------------------------------------------------------------------ bounds
MaxItems == 3        \* longest device listing
MaxPageSize == 2     \* largest number of items the device puts in one page
MaxRuns == 2         \* how many times in succession the module is invoked
MaxNum == 12         \* largest season / episode number fed to the file name

\* ------------------------------------------------------- Python values
\* None, as a value of the same shape as a string but equal to no string.
None == <<"<None>">>

\* bool(v) of a value that is None or a str.
Truthy(v) == v # None /\ v # <<>>

\* str.format of a value that is None or a str ('{0}'.format(None) = 'None').
FormatStr(v) == IF v = None THEN <<"N", "o", "n", "e">> ELSE v

\* ------------------------------------------------------------- strings
TitleA == <<"A">>
TitleLowerA == <<"a">>
EpisodeE == <<"E">>
EpisodeF == <<"F">>

ToyStory == <<"T", "o", "y", " ", "S", "t", "o", "r", "y">>
TheSimpsons == <<"T", "h", "e", " ", "S", "i", "m", "p", "s", "o", "n", "s">>
BartTheGeneral ==
  <<"B", "a", "r", "t", " ", "t", "h", "e", " ", "G", "e", "n", "e", "r", "a", "l">>

DotTiVo == <<".", "T", "i", "V", "o">>
DotMpg == <<".", "m", "p", "g">>
Dash == <<" ", "-", " ">>

\* The result of a request, as requests_wrapper sees it: a response with
\* rv.ok, a response with an error status, ConnectionError/ConnectTimeout,
\* or another exception of requests (ReadTimeout is no ConnectionError).
Outcomes == {"ok", "status", "connection", "timeout"}

\* ------------------------------------------------------------ variables
VARIABLES
  listing,         \* the device's NowPlaying listing: a sequence of Item elements
  pageSize,        \* how many items the device puts in one page
  params,          \* module.params
  catalog,         \* what The TVDB answers to each request
  destFiles,       \* the names of the files in dest_dir
  skipDir,         \* the directory skip_if_in_path names
  pc,              \* the position of main
  offset,          \* get_tivo_recording_info: offset
  recordings,      \* get_tivo_recording_info: recordings; main: recordings_info
  idx,             \* main: the index in recordings_info of recording_info
  download_count,  \* main: download_count
  page,            \* get_season_episode_num: page
  result,          \* what the run reported: exit_json, fail_json or a traceback
  trace,           \* the requests, file writes and sleeps of the run, in order
  run,             \* the number of the run
  stripParams,     \* strip_tivo_protection: module.params
  stripFiles,      \* the paths that are regular files
  stripDirs,       \* the paths that are directories
  stripPc,         \* the position of main of strip_tivo_protection
  videos_to_strip, \* strip_tivo_protection main: videos_to_strip
  videos_left,     \* the videos the loop of that main has not reached yet
  videos_stripped, \* strip_tivo_protection main: videos_stripped
  stripResult,     \* what strip_tivo_protection reported
  stripLog         \* the skips, decoder calls and removals of its run, in order

stripVars == <<stripParams, stripFiles, stripDirs, stripPc, videos_to_strip,
               videos_left, videos_stripped, stripResult, stripLog>>

fetchVars == <<listing, pageSize, params, catalog, destFiles, skipDir, pc, offset,
               recordings, idx, download_count, page, result, trace, run>>

vars == <<fetchVars, stripVars>>

envVars == <<listing, pageSize, params, catalog, skipDir>>

Event(op, arg) == [op |-> op, arg |-> arg]

NoResult == [kind |-> "none", changed |-> FALSE, msg |-> "", count |-> 0]
FailJson(msg) == [kind |-> "fail_json", changed |-> FALSE, msg |-> msg, count |-> 0]
ExitJson(msg, n, changed) ==
  [kind |-> "exit_json", changed |-> changed, msg |-> msg, count |-> n]
Traceback(msg) == [kind |-> "exception", changed |-> FALSE, msg |-> msg, count |-> 0]

AfterFailJsonReturns == "summary"

\* Where main is after a call of module.fail_json: the call exits the process.
AfterFailJson == "failed"

\* ------------------------------------------------------ requests_wrapper
\* What requests_wrapper does with the outcome of the request: it returns
\* the response ("rv"), returns None, calls module.fail_json, or lets the
\* exception through (only ConnectionError and ConnectTimeout are caught).
requests_wrapper(outcome, fail_on_error) ==
  CASE outcome = "ok" -> "rv"
    [] outcome = "status" -> IF fail_on_error THEN "fail_json" ELSE "None"
    [] outcome = "connection" -> IF fail_on_error THEN "fail_json" ELSE "None"
    [] OTHER -> "exception"

\* ------------------------------------------------ the device's listing
Min(a, b) == IF a < b THEN a ELSE b

\* The page the device answers for AnchorOffset=o: the next items of the
\* listing, at most pageSize of them, and their number as ItemCount.
DevicePage(o) == SubSeq(listing, o + 1, Min(o + pageSize, Len(listing)))

LinkSuffix == <<"&Format=video/x-tivo-mpeg">>

\* get_tivo_dl_link_from_element: the link, or "fail_json" when the nested
\* Links/Content/Url elements are missing.
HasUrl(child) == "Url" \in DOMAIN child
get_tivo_dl_link_from_element(child) == child.Url \o LinkSuffix

\* offset += item_count
NextOffsetByOne(o, item_count) == o + 1
NextOffset(o, item_count) == o + item_count

\* The two tests on the requested episode, lines 358 and 369.
EpisodeWantedAny(episode, text) == TRUE
EpisodeWanted(episode, text) == ~Truthy(episode) \/ episode = text

NoEpisodeWanted(episode) == episode = None

\* The loop over the Item elements of one page, from item i on: the
\* recordings found and how the loop ended ("next": fall out of the loop,
\* "return": return recordings, "fail_json": the link is malformed).
RECURSIVE ScanItems(_, _, _, _, _)
ScanItems(items, i, recs, title, episode) ==
  IF i > Len(items) THEN [recordings |-> recs, how |-> "next"]
  ELSE
    LET child == items[i] IN
    IF "Details" \notin DOMAIN child
    THEN ScanItems(items, i + 1, recs, title, episode)
    ELSE IF child.Details.Title # title
    THEN ScanItems(items, i + 1, recs, title, episode)
    ELSE IF "EpisodeTitle" \in DOMAIN child.Details
    THEN
      IF EpisodeWanted(episode, child.Details.EpisodeTitle)
      THEN
        IF ~HasUrl(child) THEN [recordings |-> recs, how |-> "fail_json"]
        ELSE
          LET recs2 == Append(recs, [title |-> title,
                                     episode |-> child.Details.EpisodeTitle,
                                     link |-> get_tivo_dl_link_from_element(child)])
          IN IF Truthy(episode)
             THEN [recordings |-> recs2, how |-> "return"]
             ELSE ScanItems(items, i + 1, recs2, title, episode)
      ELSE ScanItems(items, i + 1, recs, title, episode)
    ELSE IF NoEpisodeWanted(episode)
    THEN
      IF ~HasUrl(child) THEN [recordings |-> recs, how |-> "fail_json"]
      ELSE [recordings |-> Append(recs, [title |-> title,
                                         link |-> get_tivo_dl_link_from_element(child)]),
            how |-> "return"]
    ELSE ScanItems(items, i + 1, recs, title, episode)

\* One iteration of the while loop of get_tivo_recording_info: the request
\* for the page at offset, and the loop over its items.
FetchPage ==
  /\ pc = "get_tivo_recording_info"
  /\ \E outcome \in Outcomes :
       LET rv == requests_wrapper(outcome, TRUE)
           items == DevicePage(offset)
           item_count == Len(items)
           scan == ScanItems(items, 1, recordings, params.title, params.episode)
       IN
       /\ trace' = Append(trace, Event("page", offset))
       /\ CASE rv = "fail_json" ->
                 /\ pc' = AfterFailJson
                 /\ result' = FailJson("The request to get the recordings from Tivo failed.")
                 /\ UNCHANGED <<offset, recordings>>
            [] rv = "exception" ->
                 /\ pc' = "failed"
                 /\ result' = Traceback("requests")
                 /\ UNCHANGED <<offset, recordings>>
            [] rv = "rv" /\ item_count = 0 ->
                 /\ pc' = "main_463"
                 /\ UNCHANGED <<offset, recordings, result>>
            [] rv = "rv" /\ item_count # 0 /\ scan.how = "fail_json" ->
                 /\ pc' = AfterFailJson
                 /\ result' = FailJson("The data received from Tivo was in an unexpected format")
                 /\ UNCHANGED <<offset, recordings>>
            [] rv = "rv" /\ item_count # 0 /\ scan.how = "return" ->
                 /\ pc' = "main_463"
                 /\ recordings' = scan.recordings
                 /\ UNCHANGED <<offset, result>>
            [] rv = "rv" /\ item_count # 0 /\ scan.how = "next" ->
                 /\ recordings' = scan.recordings
                 /\ offset' = NextOffset(offset, item_count)
                 /\ UNCHANGED <<pc, result>>
  /\ UNCHANGED <<envVars, destFiles, idx, download_count, page, run>>
  /\ UNCHANGED stripVars

\* ------------------------------------------------------------ file name
DigitChars == <<"0", "1", "2", "3", "4", "5", "6", "7", "8", "9">>

\* The decimal digits of n >= 0.
RECURSIVE Digits(_)
Digits(n) ==
  IF n < 10 THEN <<DigitChars[n + 1]>>
  ELSE Digits(n \div 10) \o <<DigitChars[(n % 10) + 1]>>

\* '{0:0=2d}'.format(n) for n >= 0: zero padded to a width of at least two.
Format02dNoPad(n) == Digits(n)
Format02d(n) == IF Len(Digits(n)) < 2 THEN <<"0">> \o Digits(n) ELSE Digits(n)

\* recording_info.get('episode')
GetEpisode(recording_info) ==
  IF "episode" \in DOMAIN recording_info THEN recording_info.episode ELSE None

\* "season_num and episode_num" of recording_info.get(...)
HasNumbers(recording_info) ==
  /\ "season_num" \in DOMAIN recording_info
  /\ "episode_num" \in DOMAIN recording_info
  /\ recording_info.season_num # 0
  /\ recording_info.episode_num # 0

\* The file name download_tivo_recording computes.
FileName(recording_info) ==
  IF HasNumbers(recording_info)
  THEN recording_info.title \o Dash \o <<"S">> \o Format02d(recording_info.season_num)
         \o <<"E">> \o Format02d(recording_info.episode_num) \o Dash
         \o FormatStr(GetEpisode(recording_info)) \o DotTiVo
  ELSE IF Truthy(GetEpisode(recording_info))
  THEN recording_info.title \o Dash \o GetEpisode(recording_info) \o DotTiVo
  ELSE recording_info.title \o DotTiVo

\* ----------------------------------------------------------- skip rules
\* The largest index of character c in p, 0 when there is none (p.rfind).
RFind(p, c) ==
  IF \E i \in 1..Len(p) : p[i] = c
  THEN CHOOSE i \in 1..Len(p) : p[i] = c /\ \A j \in (i + 1)..Len(p) : p[j] # c
  ELSE 0

\* path.splitext(p)[0]: p up to its last dot, when that dot comes after the
\* last separator and after a character of the file name that is no dot.
SplitextRoot(p) ==
  LET sepIndex == RFind(p, "/")
      dotIndex == RFind(p, ".")
  IN IF dotIndex > sepIndex /\ \E k \in (sepIndex + 1)..(dotIndex - 1) : p[k] # "."
     THEN SubSeq(p, 1, dotIndex - 1)
     ELSE p

\* Lines 405-413: skip_path names a directory that holds a regular file of
\* the same name without extension.
InSkipPathAnyItem(file_name) ==
  /\ Truthy(params.skip_if_in_path)
  /\ skipDir.isdir
  /\ \E item \in skipDir.entries : SplitextRoot(item.name) = SplitextRoot(file_name)

InSkipPath(file_name) ==
  /\ Truthy(params.skip_if_in_path)
  /\ skipDir.isdir
  /\ \E item \in skipDir.entries :
       item.isfile /\ SplitextRoot(item.name) = SplitextRoot(file_name)

\* Line 416: path.exists(path.join(dest_dir, file_name))
DestExistsNever(file_name) == FALSE
DestExists(file_name) == file_name \in destFiles

\* Line 488: download_count < len(recordings_info), after the increment.
SleepBeforeLast(count, n) == count < n - 1
SleepAfterDownload(count, n) == count < n

SleepSeconds == 30

WantsNumbersWithoutKeys(recording_info) == Truthy(GetEpisode(recording_info))

\* Line 476: the catalog is asked for this recording.
WantsNumbers(recording_info) ==
  /\ Truthy(GetEpisode(recording_info))
  /\ Truthy(params.tvdb_api_key)
  /\ Truthy(params.tvdb_user_key)
  /\ Truthy(params.tvdb_username)

\* Where the for loop of main goes for recording i: to the summary after the
\* last one, else to the catalog or straight to download_tivo_recording.
LoopStep(recs, i) ==
  IF i > Len(recs) THEN "summary"
  ELSE IF WantsNumbers(recs[i]) THEN "tvdb_login"
  ELSE "download"

NoneFoundNever(recordings_info) == FALSE

\* Line 463: not recordings_info
NoneFound(recordings_info) == recordings_info = <<>>

\* Lines 463-471 of main, after get_tivo_recording_info returned.
MainStart ==
  /\ pc = "main_463"
  /\ IF NoneFound(recordings)
     THEN /\ pc' = AfterFailJson
          /\ result' = FailJson("No recordings were found")
          /\ UNCHANGED <<idx, download_count>>
     ELSE /\ pc' = LoopStep(recordings, 1)
          /\ idx' = 1
          /\ download_count' = 0
          /\ UNCHANGED result
  /\ UNCHANGED <<envVars, destFiles, offset, recordings, page, trace, run>>
  /\ UNCHANGED stripVars

\* -------------------------------------------------- get_season_episode_num
\* str.lower(), on the letters the model uses.
LowerChar(c) ==
  CASE c = "A" -> "a"
    [] c = "E" -> "e"
    [] c = "F" -> "f"
    [] c = "T" -> "t"
    [] c = "V" -> "v"
    [] OTHER -> c

Lower(str) == [i \in 1..Len(str) |-> LowerChar(str[i])]

\* str.strip(): without the blanks at both ends.
RECURSIVE Strip(_)
Strip(str) ==
  IF str = <<>> THEN str
  ELSE IF Head(str) = " " THEN Strip(Tail(str))
  ELSE IF str[Len(str)] = " " THEN Strip(SubSeq(str, 1, Len(str) - 1))
  ELSE str

EpisodeNameMatchesExactly(episodeName, episode_name) == episodeName = episode_name

\* Line 282: the test of one catalog episode against the requested name.
EpisodeNameMatches(episodeName, episode_name) ==
  Lower(Strip(episodeName)) = Lower(episode_name)

\* Lines 279-283: the index of the first episode of the page that matches,
\* 0 when none does.
FirstMatch(data, episode_name) ==
  IF \E i \in 1..Len(data) : EpisodeNameMatches(data[i].episodeName, episode_name)
  THEN CHOOSE i \in 1..Len(data) :
         /\ EpisodeNameMatches(data[i].episodeName, episode_name)
         /\ \A j \in 1..(i - 1) : ~EpisodeNameMatches(data[j].episodeName, episode_name)
  ELSE 0

\* What the catalog answers to the request for page p of the episodes.
PageOutcome(p) ==
  IF p \in 1..Len(catalog.pages) THEN catalog.pages[p].outcome ELSE "status"

EnrichedAlways(recs, i, season_num, episode_num) ==
  [recs EXCEPT ![i] = [title |-> recs[i].title, episode |-> recs[i].episode,
                       link |-> recs[i].link, season_num |-> season_num,
                       episode_num |-> episode_num]]

EnrichedSeparately(recs, i, season_num, episode_num) ==
  LET r == recs[i] IN
  IF season_num # 0 /\ episode_num # 0
  THEN [recs EXCEPT ![i] = [title |-> r.title, episode |-> r.episode, link |-> r.link,
                            season_num |-> season_num, episode_num |-> episode_num]]
  ELSE IF season_num # 0
  THEN [recs EXCEPT ![i] = [title |-> r.title, episode |-> r.episode, link |-> r.link,
                            season_num |-> season_num]]
  ELSE IF episode_num # 0
  THEN [recs EXCEPT ![i] = [title |-> r.title, episode |-> r.episode, link |-> r.link,
                            episode_num |-> episode_num]]
  ELSE recs

\* Lines 481-483 of main: attach the numbers when both are truthy.
Enriched(recs, i, season_num, episode_num) ==
  IF season_num # 0 /\ episode_num # 0
  THEN [recs EXCEPT ![i] = [title |-> recs[i].title, episode |-> recs[i].episode,
                            link |-> recs[i].link, season_num |-> season_num,
                            episode_num |-> episode_num]]
  ELSE recs

\* Lines 236-247: the login request.
TvdbLogin ==
  /\ pc = "tvdb_login"
  /\ LET rv == requests_wrapper(catalog.login, ~params.tvdb_ignore_failure) IN
     /\ trace' = Append(trace, Event("login", idx))
     /\ CASE rv = "fail_json" ->
               /\ pc' = AfterFailJson
               /\ result' = FailJson("The request failed attempting to login to The TVDB")
          [] rv = "exception" ->
               /\ pc' = "failed"
               /\ result' = Traceback("requests")
          [] rv = "None" ->
               /\ pc' = "download"
               /\ UNCHANGED result
          [] rv = "rv" ->
               /\ pc' = "tvdb_series"
               /\ UNCHANGED result
  /\ UNCHANGED <<envVars, destFiles, offset, recordings, idx, download_count, page, run>>
  /\ UNCHANGED stripVars

\* Lines 249-266: the series search; rv.ok of a None rv is an AttributeError.
TvdbSeries ==
  /\ pc = "tvdb_series"
  /\ LET rv == requests_wrapper(catalog.series, ~params.tvdb_ignore_failure) IN
     /\ trace' = Append(trace, Event("series", idx))
     /\ CASE rv = "fail_json" ->
               /\ pc' = AfterFailJson
               /\ result' = FailJson("The request failed while getting the series")
               /\ UNCHANGED page
          [] rv = "exception" ->
               /\ pc' = "failed"
               /\ result' = Traceback("requests")
               /\ UNCHANGED page
          [] rv = "None" ->
               /\ pc' = "failed"
               /\ result' = Traceback("AttributeError")
               /\ UNCHANGED page
          [] rv = "rv" ->
               /\ pc' = "tvdb_episodes"
               /\ page' = 1
               /\ UNCHANGED result
  /\ UNCHANGED <<envVars, destFiles, offset, recordings, idx, download_count, run>>
  /\ UNCHANGED stripVars

NextPageFollowing(current, rv_json) == current + 1

\* Lines 285-286: the page requested after a page without the episode.
NextPage(current, rv_json) == rv_json.next

\* Lines 267-292: one iteration of the loop over the pages of episodes, and
\* lines 481-483 of main when it returns.
TvdbEpisodes ==
  /\ pc = "tvdb_episodes"
  /\ LET rv == requests_wrapper(PageOutcome(page), ~params.tvdb_ignore_failure)
         rv_json == catalog.pages[page]
         m == FirstMatch(rv_json.data, recordings[idx].episode)
     IN
     /\ trace' = Append(trace, Event("episodes", page))
     /\ CASE rv = "fail_json" ->
               /\ pc' = AfterFailJson
               /\ result' = FailJson("The request failed getting the episodes in the series")
               /\ UNCHANGED <<page, recordings>>
          [] rv = "exception" ->
               /\ pc' = "failed"
               /\ result' = Traceback("requests")
               /\ UNCHANGED <<page, recordings>>
          [] rv = "None" ->
               /\ pc' = "failed"
               /\ result' = Traceback("AttributeError")
               /\ UNCHANGED <<page, recordings>>
          [] rv = "rv" /\ m # 0 ->
               /\ pc' = "download"
               /\ recordings' = Enriched(recordings, idx, rv_json.data[m].airedSeason,
                                         rv_json.data[m].airedEpisodeNumber)
               /\ UNCHANGED <<page, result>>
          [] rv = "rv" /\ m = 0 /\ rv_json.next # 0 ->
               /\ page' = NextPage(page, rv_json)
               /\ UNCHANGED <<pc, recordings, result>>
          [] rv = "rv" /\ m = 0 /\ rv_json.next = 0 /\ ~params.tvdb_ignore_failure ->
               /\ pc' = AfterFailJson
               /\ result' = FailJson("The episode could not be found on The TVDB")
               /\ UNCHANGED <<page, recordings>>
          [] rv = "rv" /\ m = 0 /\ rv_json.next = 0 /\ params.tvdb_ignore_failure ->
               /\ pc' = "download"
               /\ UNCHANGED <<page, recordings, result>>
  /\ UNCHANGED <<envVars, destFiles, offset, idx, download_count, run>>
  /\ UNCHANGED stripVars

\* ------------------------------------------------ download_tivo_recording
\* download_tivo_recording for recording idx, and lines 485-490 of main: the
\* recording is skipped, or requested from the device and written to dest_dir.
Download ==
  /\ pc = "download"
  /\ LET recording_info == recordings[idx]
         file_name == FileName(recording_info)
     IN
     IF InSkipPath(file_name) \/ DestExists(file_name)
     THEN /\ trace' = Append(trace, Event("skipped", idx))
          /\ idx' = idx + 1
          /\ pc' = LoopStep(recordings, idx + 1)
          /\ UNCHANGED <<destFiles, download_count, result>>
     ELSE \E outcome \in Outcomes, body \in {"complete", "interrupted"} :
            LET rv == requests_wrapper(outcome, TRUE) IN
            CASE rv = "fail_json" ->
                   /\ trace' = Append(trace, Event("download", idx))
                   /\ pc' = AfterFailJson
                   /\ result' = FailJson("Downloading failed.")
                   /\ UNCHANGED <<destFiles, idx, download_count>>
              [] rv = "exception" ->
                   /\ trace' = Append(trace, Event("download", idx))
                   /\ pc' = "failed"
                   /\ result' = Traceback("requests")
                   /\ UNCHANGED <<destFiles, idx, download_count>>
              [] rv = "rv" /\ body = "interrupted" ->
                   /\ trace' = trace \o <<Event("download", idx), Event("write", idx)>>
                   /\ destFiles' = destFiles \cup {file_name}
                   /\ pc' = "failed"
                   /\ result' = Traceback("iter_content")
                   /\ UNCHANGED <<idx, download_count>>
              [] rv = "rv" /\ body = "complete" ->
                   /\ trace' = trace \o <<Event("download", idx), Event("write", idx)>>
                   /\ destFiles' = destFiles \cup {file_name}
                   /\ download_count' = download_count + 1
                   /\ IF SleepAfterDownload(download_count + 1, Len(recordings))
                      THEN pc' = "sleep" /\ idx' = idx
                      ELSE pc' = LoopStep(recordings, idx + 1) /\ idx' = idx + 1
                   /\ UNCHANGED result
  /\ UNCHANGED <<envVars, offset, recordings, page, run>>
  /\ UNCHANGED stripVars

\* Line 490: sleep(30), then the next recording.
Sleep ==
  /\ pc = "sleep"
  /\ trace' = Append(trace, Event("sleep", SleepSeconds))
  /\ idx' = idx + 1
  /\ pc' = LoopStep(recordings, idx + 1)
  /\ UNCHANGED <<envVars, destFiles, offset, recordings, download_count, page, result, run>>
  /\ UNCHANGED stripVars

ChangedAlways(count) == TRUE

\* Line 492: changed is download_count > 0.
Changed(count) == count > 0

\* Lines 492-501 of main.
Summary ==
  /\ pc = "summary"
  /\ pc' = "done"
  /\ result' = IF Changed(download_count)
               THEN ExitJson("recording(s) downloaded successfully", download_count, TRUE)
               ELSE IF Len(recordings) > 0
               THEN ExitJson("recording(s) skipped", Len(recordings), FALSE)
               ELSE ExitJson("No recordings were found that matched the criteria", 0, FALSE)
  /\ UNCHANGED <<envVars, destFiles, offset, recordings, idx, download_count, page, trace, run>>
  /\ UNCHANGED stripVars

\* The module is invoked again, with the same parameters, after a run that
\* exited: only the file system is what the run before left.
Rerun ==
  /\ pc = "done"
  /\ run < MaxRuns
  /\ run' = run + 1
  /\ pc' = "get_tivo_recording_info"
  /\ offset' = 0
  /\ recordings' = <<>>
  /\ idx' = 0
  /\ download_count' = 0
  /\ page' = 0
  /\ result' = NoResult
  /\ trace' = <<>>
  /\ UNCHANGED <<envVars, destFiles>>
  /\ UNCHANGED stripVars

\* ------------------------------------------------- strip_tivo_protection
\* os.path.join(a, item), for a path a that does not end with a separator.
Join(a, item) == a \o <<"/">> \o item

\* os.path.exists, os.path.isdir and os.path.isfile.
Exists(p) == p \in stripFiles \cup stripDirs
IsDir(p) == p \in stripDirs
IsFile(p) == p \in stripFiles

\* os.listdir(dir): the names of the entries of the directory.
ListDir(dir) ==
  {SubSeq(p, Len(dir) + 2, Len(p)) :
     p \in {q \in stripFiles \cup stripDirs :
              /\ Len(q) > Len(dir) + 1
              /\ SubSeq(q, 1, Len(dir) + 1) = dir \o <<"/">>
              /\ \A k \in (Len(dir) + 2)..Len(q) : q[k] # "/"}}

\* str.endswith
EndsWith(str, suffix) ==
  /\ Len(str) >= Len(suffix)
  /\ SubSeq(str, Len(str) - Len(suffix) + 1, Len(str)) = suffix

\* Line 166: item.lower().endswith('.tivo')
IsTivoName(item) == EndsWith(Lower(item), <<".", "t", "i", "v", "o">>)

\* source.rsplit('.', 1)[0]: source up to its last dot.
RsplitDot(source) ==
  IF RFind(source, ".") = 0 THEN source ELSE SubSeq(source, 1, RFind(source, ".") - 1)

\* Lines 102-105 of tivo_to_mpg: destination_path.
DestinationPath(source, destination) ==
  IF Truthy(destination) THEN destination ELSE RsplitDot(source) \o DotMpg

\* Lines 162-169: the videos main hands to tivo_to_mpg.
VideosToStrip(source) ==
  IF IsDir(source)
  THEN {Join(source, item) : item \in {i \in ListDir(source) :
                                          IsTivoName(i) /\ IsFile(Join(source, i))}}
  ELSE {source}

TivoDecoderPath == <<"/", "j">>

StripEvent(op, video, destination_path) ==
  [op |-> op, video |-> video, destination_path |-> destination_path]

\* Lines 146-171 of main: the checks of the paths and the choice of the
\* videos to strip.
StripStart ==
  /\ stripPc = "main"
  /\ LET source == stripParams.source
         destination == stripParams.destination
     IN
     IF ~Exists(TivoDecoderPath)
     THEN /\ stripPc' = AfterFailJson
          /\ stripResult' = FailJson("TivoDecoder.jar was not found")
          /\ UNCHANGED <<videos_to_strip, videos_left>>
     ELSE IF ~Exists(source)
     THEN /\ stripPc' = AfterFailJson
          /\ stripResult' = FailJson("The source does not exist")
          /\ UNCHANGED <<videos_to_strip, videos_left>>
     ELSE IF Truthy(destination) /\ Exists(destination)
             /\ IsDir(destination) # IsDir(source)
     THEN /\ stripPc' = AfterFailJson
          /\ stripResult' = FailJson("The source and destination need to be the same type")
          /\ UNCHANGED <<videos_to_strip, videos_left>>
     ELSE /\ videos_to_strip' = VideosToStrip(source)
          /\ videos_left' = VideosToStrip(source)
          /\ stripPc' = "loop"
          /\ UNCHANGED stripResult
  /\ UNCHANGED <<stripParams, stripFiles, stripDirs, videos_stripped, stripLog>>
  /\ UNCHANGED fetchVars

RemovedWhenReplace(video, returned, replace) == IF replace THEN {video} ELSE {}

\* Lines 173-176 of main: the files os.remove deletes after tivo_to_mpg
\* returned for the video (None when it skipped it).
Removed(video, returned, replace) ==
  IF Truthy(returned) /\ replace THEN {video} ELSE {}

\* The removals of one iteration, as events.
Removals(removed, destination_path) ==
  IF removed = {} THEN <<>>
  ELSE <<StripEvent("remove", CHOOSE v \in removed : TRUE, destination_path)>>

\* Lines 172-176 of main and tivo_to_mpg, for one video: os.listdir gives the
\* videos in any order. The decoder exits with 0 and has written
\* destination_path, or exits with another code, having written it or not.
StripVideo ==
  /\ stripPc = "loop"
  /\ \E video \in videos_left :
       LET destination_path == DestinationPath(video, stripParams.destination) IN
       /\ videos_left' = videos_left \ {video}
       /\ IF Exists(destination_path)
          THEN LET removed == Removed(video, None, stripParams.replace) IN
               /\ stripLog' = Append(stripLog, StripEvent("skip", video, destination_path))
                                \o Removals(removed, destination_path)
               /\ stripFiles' = stripFiles \ removed
               /\ UNCHANGED <<stripPc, videos_stripped, stripResult>>
          ELSE \E returncode \in {0, 1}, written \in BOOLEAN :
                 IF returncode # 0
                 THEN /\ stripLog' =
                           Append(stripLog, StripEvent("decoder failed", video, destination_path))
                      /\ stripFiles' = IF written THEN stripFiles \cup {destination_path}
                                       ELSE stripFiles
                      /\ stripPc' = AfterFailJson
                      /\ stripResult' = FailJson("The TivoDecoder command failed.")
                      /\ UNCHANGED videos_stripped
                 ELSE LET removed == Removed(video, destination_path, stripParams.replace) IN
                      /\ written
                      /\ videos_stripped' = videos_stripped + 1
                      /\ stripLog' =
                           Append(stripLog, StripEvent("decoded", video, destination_path))
                           \o Removals(removed, destination_path)
                      /\ stripFiles' = (stripFiles \cup {destination_path}) \ removed
                      /\ UNCHANGED <<stripPc, stripResult>>
  /\ UNCHANGED <<stripParams, stripDirs, videos_to_strip>>
  /\ UNCHANGED fetchVars

\* Lines 178-187 of main.
StripSummary ==
  /\ stripPc = "loop"
  /\ videos_left = {}
  /\ stripPc' = "done"
  /\ stripResult' =
       IF videos_stripped > 0
       THEN ExitJson("recording(s) stripped successfully", videos_stripped, TRUE)
       ELSE IF Cardinality(videos_to_strip) > 0
       THEN ExitJson("recordings were skipped", Cardinality(videos_to_strip), FALSE)
       ELSE ExitJson("No recordings were found that matched the criteria", 0, FALSE)
  /\ UNCHANGED <<stripParams, stripFiles, stripDirs, videos_to_strip, videos_left,
                 videos_stripped, stripLog>>
  /\ UNCHANGED fetchVars

\* ------------------------------------------------------- initial states
\* Item elements of the listing: a container has no Details, a movie has no
\* EpisodeTitle, and a malformed item has no Links/Content/Url.
Container == [Url |-> <<"c">>]
Movie(t) == [Details |-> [Title |-> t], Url |-> <<"m">> \o t]
Episode(t, e) == [Details |-> [Title |-> t, EpisodeTitle |-> e], Url |-> <<"u">> \o t \o e]
NoLink(t, e) == [Details |-> [Title |-> t, EpisodeTitle |-> e]]

IndexItems ==
  {Container, Movie(TitleA), Episode(TitleA, EpisodeE), Episode(TitleA, EpisodeF),
   Episode(TitleLowerA, EpisodeE), NoLink(TitleA, EpisodeE)}

MainItems == {Movie(TitleA), Episode(TitleA, EpisodeE), Episode(TitleA, EpisodeF)}

SeqsUpTo(S, n) == UNION {[1..k -> S] : k \in 0..n}

Key == <<"k">>
AllKeys == [tvdb_api_key |-> Key, tvdb_user_key |-> Key, tvdb_username |-> Key]
NoApiKey == [tvdb_api_key |-> None, tvdb_user_key |-> Key, tvdb_username |-> Key]
EmptyUserKey == [tvdb_api_key |-> Key, tvdb_user_key |-> <<>>, tvdb_username |-> Key]

\* One episode of a catalog page, and one page.
CatalogEpisode(name, s, e) ==
  [episodeName |-> name, airedSeason |-> s, airedEpisodeNumber |-> e]
CatalogPage(outcome, data, next) == [outcome |-> outcome, data |-> data, next |-> next]
Catalog(login, series, pages) == [login |-> login, series |-> series, pages |-> pages]

\* A catalog that knows both episodes: E on page 1 (written " e", and once
\* more as "E"), F on page 2.
CatalogBoth ==
  Catalog("ok", "ok",
          <<CatalogPage("ok", <<CatalogEpisode(<<"G">>, 1, 1),
                                CatalogEpisode(<<" ", "e">>, 1, 2),
                                CatalogEpisode(EpisodeE, 3, 4)>>, 2),
            CatalogPage("ok", <<CatalogEpisode(EpisodeF, 2, 10)>>, 0)>>)

\* A catalog that lists E as a special (season 0) and F with episode
\* number 0.
CatalogSpecial ==
  Catalog("ok", "ok", <<CatalogPage("ok", <<CatalogEpisode(EpisodeE, 0, 5),
                                            CatalogEpisode(EpisodeF, 3, 0)>>, 0)>>)

\* A catalog whose first page names page 3 as the next one: E is on page 2
\* only, F on page 3.
CatalogSkips ==
  Catalog("ok", "ok",
          <<CatalogPage("ok", <<CatalogEpisode(<<"G">>, 1, 1)>>, 3),
            CatalogPage("ok", <<CatalogEpisode(EpisodeE, 5, 5)>>, 0),
            CatalogPage("ok", <<CatalogEpisode(EpisodeF, 2, 10)>>, 0)>>)

\* Catalogs one of whose requests fails.
FailingCatalogs ==
  {Catalog("status", "ok", <<>>), Catalog("connection", "ok", <<>>),
   Catalog("timeout", "ok", <<>>),
   Catalog("ok", "status", <<>>), Catalog("ok", "connection", <<>>),
   Catalog("ok", "ok", <<CatalogPage("status", <<>>, 0)>>),
   Catalog("ok", "ok", <<CatalogPage("ok", <<CatalogEpisode(<<"G">>, 1, 1)>>, 2),
                         CatalogPage("connection", <<>>, 0)>>)}

NameAE == TitleA \o Dash \o EpisodeE \o DotTiVo
NameA == TitleA \o DotTiVo
NameAS01E02E == TitleA \o Dash \o <<"S", "0", "1", "E", "0", "2">> \o Dash \o EpisodeE \o DotTiVo

SkipPath == <<"/", "s">>
File(name) == [name |-> name, isfile |-> TRUE]
Folder(name) == [name |-> name, isfile |-> FALSE]
Dir(isdir, entries) == [isdir |-> isdir, entries |-> entries]
Fs(dest, skip_if_in_path, dir) ==
  [destFiles |-> dest, skip_if_in_path |-> skip_if_in_path, skipDir |-> dir]

EmptyFs == Fs({}, None, Dir(FALSE, {}))

\* The file systems a run starts from.
FileSystems ==
  {EmptyFs,
   Fs({NameAE}, None, Dir(FALSE, {})),
   Fs({NameAS01E02E}, None, Dir(FALSE, {})),
   Fs({}, SkipPath, Dir(TRUE, {File(TitleA \o Dash \o EpisodeE \o DotMpg),
                               Folder(TitleA \o Dash \o EpisodeF)})),
   Fs({}, SkipPath, Dir(TRUE, {File(TitleA \o Dash \o EpisodeF),
                               File(TitleA \o Dash \o EpisodeE \o <<".", "t", "s">> \o DotMpg),
                               File(<<".">> \o TitleA)})),
   Fs({NameA}, SkipPath, Dir(FALSE, {File(NameAE)})),
   Fs({}, <<>>, Dir(TRUE, {File(NameAE)}))}

Setup(fs, keys, tolerant, cat) ==
  [fs |-> fs, keys |-> keys, tvdb_ignore_failure |-> tolerant, catalog |-> cat]

NoCatalog == Catalog("status", "status", <<>>)

\* File system, credentials and catalog of a run.
Setups ==
  {Setup(fs, NoApiKey, FALSE, NoCatalog) : fs \in FileSystems}
  \cup {Setup(fs, AllKeys, t, CatalogBoth) : fs \in FileSystems, t \in BOOLEAN}
  \cup {Setup(EmptyFs, EmptyUserKey, TRUE, NoCatalog)}
  \cup {Setup(EmptyFs, AllKeys, t, c) :
          t \in BOOLEAN, c \in FailingCatalogs \cup {CatalogSpecial, CatalogSkips}}

Params(title, episode, setup) ==
  [title |-> title, episode |-> episode,
   tvdb_api_key |-> setup.keys.tvdb_api_key,
   tvdb_user_key |-> setup.keys.tvdb_user_key,
   tvdb_username |-> setup.keys.tvdb_username,
   tvdb_ignore_failure |-> setup.tvdb_ignore_failure,
   skip_if_in_path |-> setup.fs.skip_if_in_path]

\* strip_tivo_protection, not invoked.
StripIdle ==
  /\ stripParams = [source |-> <<>>, destination |-> None, replace |-> FALSE]
  /\ stripFiles = {}
  /\ stripDirs = {}
  /\ stripPc = "idle"
  /\ videos_to_strip = {}
  /\ videos_left = {}
  /\ videos_stripped = 0
  /\ stripResult = NoResult
  /\ stripLog = <<>>

\* The state of main before get_tivo_recording_info is called.
InitProgram ==
  /\ pc = "get_tivo_recording_info"
  /\ offset = 0
  /\ recordings = <<>>
  /\ idx = 0
  /\ download_count = 0
  /\ page = 0
  /\ result = NoResult
  /\ trace = <<>>
  /\ run = 1

\* The listings of the device: the recordings of the title, and listings
\* that start with a recording whose title differs in letter case only.
MainListings ==
  SeqsUpTo(MainItems, MaxItems)
  \cup {<<Episode(TitleLowerA, EpisodeE)>> \o l : l \in SeqsUpTo(MainItems, MaxItems - 2)}

Init ==
  /\ listing \in MainListings
  /\ pageSize = MaxPageSize
  /\ \E setup \in Setups, episode \in {None, EpisodeE} :
       /\ params = Params(TitleA, episode, setup)
       /\ catalog = setup.catalog
       /\ destFiles = setup.fs.destFiles
       /\ skipDir = setup.fs.skipDir
  /\ InitProgram
  /\ StripIdle

Next ==
  \/ FetchPage
  \/ MainStart
  \/ TvdbLogin
  \/ TvdbSeries
  \/ TvdbEpisodes
  \/ Download
  \/ Sleep
  \/ Summary
  \/ Rerun

Spec == Init /\ [][Next]_vars

\* get_tivo_recording_info alone, on every listing of the device.
InitIndex ==
  /\ listing \in SeqsUpTo(IndexItems, MaxItems)
  /\ pageSize \in 1..MaxPageSize
  /\ \E episode \in {None, <<>>, EpisodeE} :
       params = Params(TitleA, episode, Setup(EmptyFs, NoApiKey, FALSE, NoCatalog))
  /\ catalog = NoCatalog
  /\ destFiles = {}
  /\ skipDir = EmptyFs.skipDir
  /\ InitProgram
  /\ StripIdle

NextIndex == FetchPage

SpecIndex == InitIndex /\ [][NextIndex]_vars

\* ------------------------------------------------------------ properties
\* The requests for a page of the listing, in the order they were sent.
PageRequests == SelectSeq(trace, LAMBDA e : e.op = "page")

\* The ItemCount the device reports for the page at offset o.
ItemCountAt(o) == Len(DevicePage(o))

\* The items of the listing that are recordings of the requested title.
Titled == {i \in 1..Len(listing) :
             /\ "Details" \in DOMAIN listing[i]
             /\ listing[i].Details.Title = params.title}
Episodic == {i \in Titled : "EpisodeTitle" \in DOMAIN listing[i].Details}
NonEpisodic == Titled \ Episodic

\* get_tivo_recording_info has returned to main.
Returned == pc = "main_463"

\* C1: the AnchorOffset values requested start at 0, each later one is the
\* one before plus the ItemCount of the page before, so they strictly
\* increase, and no page is requested after a page that reports ItemCount 0:
\* that page ends the discovery.
C1_OffsetsAdvance ==
  /\ PageRequests # <<>> => PageRequests[1].arg = 0
  /\ \A i \in 2..Len(PageRequests) :
       /\ PageRequests[i].arg
            = PageRequests[i - 1].arg + ItemCountAt(PageRequests[i - 1].arg)
       /\ PageRequests[i].arg > PageRequests[i - 1].arg
       /\ ItemCountAt(PageRequests[i - 1].arg) # 0
  /\ (PageRequests # <<>> /\ ItemCountAt(PageRequests[Len(PageRequests)].arg) = 0)
       => pc # "get_tivo_recording_info"

\* Three pages were requested, the last one reported ItemCount 0 and ended
\* the discovery with the recordings found on the pages before.
C1_Witness ==
  /\ Returned
  /\ Len(PageRequests) = 3
  /\ ItemCountAt(PageRequests[3].arg) = 0
  /\ pageSize = 2
  /\ Len(recordings) = 2

\* The items that have the requested title and the requested episode title.
EpisodeMatches == {i \in Episodic : listing[i].Details.EpisodeTitle = params.episode}

\* C2: with an episode requested and exactly one item of the listing having
\* that title and episode title, the recordings returned are that item alone,
\* and no page is requested after the page that holds it.
C2_SingleEpisode ==
  (Truthy(params.episode) /\ Cardinality(EpisodeMatches) = 1) =>
    LET i == CHOOSE i \in EpisodeMatches : TRUE IN
    /\ Returned =>
         /\ "Url" \in DOMAIN listing[i]
         /\ recordings = <<[title |-> params.title, episode |-> params.episode,
                            link |-> listing[i].Url \o LinkSuffix]>>
    /\ \A k \in 1..Len(PageRequests) : PageRequests[k].arg < i

\* The single matching item is on the second of three pages, after an
\* episode of another name, and the discovery returned after two requests.
C2_Witness ==
  /\ Truthy(params.episode)
  /\ EpisodeMatches = {2}
  /\ Episodic = {1, 2, 3}
  /\ pageSize = 1
  /\ Returned
  /\ Len(PageRequests) = 2
  /\ Len(recordings) = 1

\* The first item of the listing that has the requested title and no
\* episode title, and the offset of the page that holds item i.
FirstNonEpisodic == CHOOSE i \in NonEpisodic : \A j \in NonEpisodic : i <= j
PageOffsetOf(i) == ((i - 1) \div pageSize) * pageSize

\* C3: with no episode requested (the argument is None or ''), and an item
\* of the requested title without an episode title on the device, the
\* recordings returned are that item alone, without an episode, and no page
\* is requested after the first page that holds it.  Stated for the titles
\* the sentence is about, those none of whose items has an episode title.
C3_NonEpisodicTitle ==
  (~Truthy(params.episode) /\ NonEpisodic # {} /\ Episodic = {}) =>
    /\ Returned =>
         /\ Len(recordings) = 1
         /\ "episode" \notin DOMAIN recordings[1]
         /\ "Url" \in DOMAIN listing[FirstNonEpisodic]
         /\ recordings[1] = [title |-> params.title,
                             link |-> listing[FirstNonEpisodic].Url \o LinkSuffix]
    /\ \A k \in 1..Len(PageRequests) : PageRequests[k].arg <= PageOffsetOf(FirstNonEpisodic)

\* C4: with no episode requested, the recordings returned are one for every
\* item of the listing that has details, the requested title and an episode
\* title.
C4_AllEpisodes ==
  (~Truthy(params.episode) /\ Returned) =>
    \A i \in Episodic :
      \E k \in 1..Len(recordings) :
        /\ "episode" \in DOMAIN recordings[k]
        /\ recordings[k].episode = listing[i].Details.EpisodeTitle
        /\ "Url" \in DOMAIN listing[i]
        /\ recordings[k].link = listing[i].Url \o LinkSuffix

\* ---------------------------------------- download_tivo_recording alone
Titles == {TitleA, ToyStory, TheSimpsons}
EpisodeTitles == {EpisodeE, BartTheGeneral}
Numbers == 1..MaxNum \cup {100}

\* The recording_info dicts main passes to download_tivo_recording: numbers
\* are attached only to a recording with an episode title, and both at once.
RecordingInfos ==
  {[title |-> t, link |-> <<"u">>] : t \in Titles}
  \cup {[title |-> t, episode |-> e, link |-> <<"u">>] : t \in Titles, e \in EpisodeTitles}
  \cup {[title |-> t, episode |-> e, link |-> <<"u">>, season_num |-> s, episode_num |-> n] :
          t \in Titles, e \in EpisodeTitles, s \in Numbers, n \in Numbers}

InitName ==
  /\ listing = <<>>
  /\ pageSize = 1
  /\ params = Params(TitleA, None, Setup(EmptyFs, NoApiKey, FALSE, NoCatalog))
  /\ catalog = NoCatalog
  /\ destFiles = {}
  /\ skipDir = EmptyFs.skipDir
  /\ pc = "download"
  /\ offset = 0
  /\ \E r \in RecordingInfos : recordings = <<r>>
  /\ idx = 1
  /\ download_count = 0
  /\ page = 0
  /\ result = NoResult
  /\ trace = <<>>
  /\ run = 1
  /\ StripIdle

NextName == Download

SpecName == InitName /\ [][NextName]_vars

\* The number a sequence of decimal digits stands for.
DigitValue(c) == CHOOSE d \in 0..9 : DigitChars[d + 1] = c

RECURSIVE ParseInt(_)
ParseInt(ds) ==
  IF ds = <<>> THEN 0
  ELSE 10 * ParseInt(SubSeq(ds, 1, Len(ds) - 1)) + DigitValue(ds[Len(ds)])

IsNumberField(ds, n) ==
  /\ Len(ds) >= 2
  /\ \A k \in 1..Len(ds) : \E d \in 1..10 : DigitChars[d] = ds[k]
  /\ ParseInt(ds) = n
  /\ Len(ds) > 2 => ds[1] # "0"

\* C5: the file written is named '{title} - S{season:02d}E{episode:02d} -
\* {episode title}.TiVo' when both numbers are known, '{title} - {episode
\* title}.TiVo' when only an episode title is, and '{title}.TiVo' otherwise;
\* 'Toy Story.TiVo' and 'The Simpsons - S01E01 - Bart the General.TiVo' are
\* two such names.
C5_FileName ==
  destFiles # {} =>
    LET r == recordings[1] IN
    /\ Cardinality(destFiles) = 1
    /\ \A name \in destFiles :
         /\ "season_num" \in DOMAIN r =>
              \E ls \in 2..3, le \in 2..3 :
                LET s0 == Len(r.title) + 4
                    e0 == s0 + ls + 1
                IN /\ Len(name) = e0 + le + 3 + Len(r.episode) + 5
                   /\ SubSeq(name, 1, s0) = r.title \o <<" ", "-", " ", "S">>
                   /\ IsNumberField(SubSeq(name, s0 + 1, s0 + ls), r.season_num)
                   /\ name[e0] = "E"
                   /\ IsNumberField(SubSeq(name, e0 + 1, e0 + le), r.episode_num)
                   /\ SubSeq(name, e0 + le + 1, Len(name))
                        = <<" ", "-", " ">> \o r.episode \o <<".", "T", "i", "V", "o">>
         /\ ("season_num" \notin DOMAIN r /\ "episode" \in DOMAIN r) =>
              name = r.title \o <<" ", "-", " ">> \o r.episode \o <<".", "T", "i", "V", "o">>
         /\ "episode" \notin DOMAIN r =>
              name = r.title \o <<".", "T", "i", "V", "o">>
    /\ r = [title |-> ToyStory, link |-> <<"u">>] =>
         destFiles = {<<"T", "o", "y", " ", "S", "t", "o", "r", "y", ".", "T", "i", "V", "o">>}
    /\ r = [title |-> TheSimpsons, episode |-> BartTheGeneral, link |-> <<"u">>,
            season_num |-> 1, episode_num |-> 1] =>
         destFiles = {<<"T", "h", "e", " ", "S", "i", "m", "p", "s", "o", "n", "s",
                        " ", "-", " ", "S", "0", "1", "E", "0", "1", " ", "-", " ",
                        "B", "a", "r", "t", " ", "t", "h", "e", " ",
                        "G", "e", "n", "e", "r", "a", "l", ".", "T", "i", "V", "o">>}

\* The Simpsons episode of the example was downloaded under its name with
\* season and episode number.
C5_Witness ==
  /\ recordings = <<[title |-> TheSimpsons, episode |-> BartTheGeneral, link |-> <<"u">>,
                     season_num |-> 1, episode_num |-> 1]>>
  /\ Cardinality(destFiles) = 1
  /\ \E name \in destFiles : Len(name) = 45
  /\ pc = "summary"

\* The positions of the trace that hold an event of kind op.
Positions(op) == {i \in 1..Len(trace) : trace[i].op = op}

\* C6: in a run that follows a run which reached its summary, on the same
\* listing, catalog and directories, no download request is sent and no file
\* is written, the run exits with changed=false, and nothing but a failed
\* request for a page of the listing keeps it from exiting.
C6_SecondRunIdle ==
  run > 1 =>
    /\ Positions("download") = {}
    /\ Positions("write") = {}
    /\ pc = "done" => (result.kind = "exit_json" /\ result.changed = FALSE)
    /\ pc = "failed" => trace[Len(trace)].op = "page"

\* The second run skipped three recordings, the files of two of which the
\* first run had written with season and episode numbers in their names.
C6_Witness ==
  /\ run = 2
  /\ pc = "done"
  /\ Cardinality(Positions("skipped")) = 3
  /\ Cardinality(destFiles) = 2
  /\ \A i \in 1..Len(recordings) : "season_num" \in DOMAIN recordings[i]

\* The file name of the recording at hand without its ".TiVo".
Stem(file_name) == SubSeq(file_name, 1, Len(file_name) - 5)

\* name is stem, or stem and an extension: a dot and characters with no dot.
IsStemOf(stem, name) ==
  /\ Len(name) >= Len(stem)
  /\ SubSeq(name, 1, Len(stem)) = stem
  /\ Len(name) > Len(stem) =>
       /\ name[Len(stem) + 1] = "."
       /\ \A k \in (Len(stem) + 2)..Len(name) : name[k] # "."

\* The two skip conditions, for the recording download_tivo_recording is
\* called for.
SkipByPath ==
  /\ params.skip_if_in_path # None
  /\ params.skip_if_in_path # <<>>
  /\ skipDir.isdir
  /\ \E item \in skipDir.entries :
       item.isfile /\ IsStemOf(Stem(FileName(recordings[idx])), item.name)

SkipByDest == FileName(recordings[idx]) \in destFiles

\* C7: download_tivo_recording sends the download request if and only if
\* neither skip condition holds; when one holds it returns without a request
\* and without writing a file, and the loop goes on to the next recording.
C7_SkipRule ==
  [][pc = "download" =>
       IF SkipByPath \/ SkipByDest
       THEN /\ trace' = Append(trace, Event("skipped", idx))
            /\ destFiles' = destFiles
            /\ download_count' = download_count
            /\ idx' = idx + 1
       ELSE /\ Len(trace') > Len(trace)
            /\ trace'[Len(trace) + 1] = Event("download", idx)
            /\ pc' # "failed" =>
                 /\ destFiles' = destFiles \cup {FileName(recordings[idx])}
                 /\ download_count' = download_count + 1]_vars

\* One recording was skipped for a file of its name in the skip-check
\* directory, and another, of whose name that directory holds a folder, was
\* downloaded.
C7_Witness ==
  /\ Truthy(params.skip_if_in_path)
  /\ skipDir.isdir
  /\ destFiles = {TitleA \o Dash \o EpisodeF \o DotTiVo}
  /\ Positions("skipped") # {}
  /\ Positions("write") # {}
  /\ pc = "done"

\* C8: no sleep follows the final transfer of the batch: when the run
\* reaches its summary, every sleep was followed by a download.
C8_NoPauseAfterLast ==
  pc \in {"summary", "done"} =>
    \A i \in Positions("sleep") : \E j \in Positions("download") : j > i

\* C9: between two successive downloads of a run there is a sleep of 30,
\* taken after the earlier download was written.
C9_PauseBetween ==
  \A i \in Positions("download"), j \in Positions("download") :
    i < j =>
      \E w \in Positions("write"), k \in Positions("sleep") :
        /\ i < w /\ w < k /\ k < j
        /\ trace[w].arg = trace[i].arg
        /\ trace[k].arg = 30

\* Three recordings were downloaded in one run.
C9_Witness ==
  /\ Cardinality(Positions("download")) = 3
  /\ Cardinality(Positions("write")) = 3
  /\ pc = "done"

\* The last request of the trace went to the catalog and met a connection
\* failure or a non-success status.
CatalogRequestFailed ==
  /\ trace # <<>>
  /\ LET last == trace[Len(trace)] IN
     \/ last.op = "login" /\ catalog.login \in {"status", "connection"}
     \/ last.op = "series" /\ catalog.series \in {"status", "connection"}
     \/ last.op = "episodes" /\ PageOutcome(last.arg) \in {"status", "connection"}

\* C10: with tvdb_ignore_failure set, a catalog request that fails does not
\* end the run: get_season_episode_num returns (None, None) and main goes on
\* to download_tivo_recording for that recording.
C10_TolerantContinues ==
  (params.tvdb_ignore_failure /\ CatalogRequestFailed) =>
    /\ pc = "download"
    /\ result = NoResult
    /\ "season_num" \notin DOMAIN recordings[idx]

\* The recording whose episode search sent the request at position k of the
\* trace: the one of the latest series search before k.
SearchedAt(k) ==
  LET s == CHOOSE i \in 1..(k - 1) :
             /\ trace[i].op = "series"
             /\ \A j \in (i + 1)..(k - 1) : trace[j].op # "series"
  IN trace[s].arg

\* Page q of the catalog was answered, and no episode on it has the name.
AnsweredWithout(q, episode_name) ==
  /\ q \in 1..Len(catalog.pages)
  /\ catalog.pages[q].outcome = "ok"
  /\ \A i \in 1..Len(catalog.pages[q].data) :
       ~EpisodeNameMatches(catalog.pages[q].data[i].episodeName, episode_name)

\* C11: the episode search starts at page 1; after a page without the
\* episode it requests exactly the page that page's links.next names; when
\* links.next is absent the search ends as not found: a fail_json 'could not
\* be found' when fail_on_error is true, otherwise (None, None), so that no
\* numbers are attached.
C11_PageOrder ==
  /\ \A k \in Positions("episodes") :
       IF trace[k - 1].op = "series"
       THEN trace[k].arg = 1
       ELSE /\ trace[k - 1].op = "episodes"
            /\ AnsweredWithout(trace[k - 1].arg, recordings[SearchedAt(k)].episode)
            /\ trace[k].arg = catalog.pages[trace[k - 1].arg].next
  /\ \A k \in Positions("episodes") :
       (/\ AnsweredWithout(trace[k].arg, recordings[SearchedAt(k)].episode)
        /\ catalog.pages[trace[k].arg].next # 0) =>
         \/ k < Len(trace) /\ trace[k + 1].op = "episodes"
         \/ k = Len(trace) /\ pc = "tvdb_episodes"
  /\ (/\ trace # <<>>
      /\ trace[Len(trace)].op = "episodes"
      /\ AnsweredWithout(trace[Len(trace)].arg, recordings[idx].episode)
      /\ catalog.pages[trace[Len(trace)].arg].next = 0) =>
       IF params.tvdb_ignore_failure
       THEN /\ pc = "download"
            /\ result = NoResult
            /\ "season_num" \notin DOMAIN recordings[idx]
       ELSE /\ pc = "failed"
            /\ result = FailJson("The episode could not be found on The TVDB")

\* A search went from page 1 to page 3, which page 1 named, did not find the
\* episode there and ended the run with the fatal error.
C11_Witness ==
  /\ \E k \in Positions("episodes") :
       /\ k + 1 = Len(trace)
       /\ trace[k].arg = 1
       /\ trace[k + 1] = Event("episodes", 3)
  /\ result = FailJson("The episode could not be found on The TVDB")

\* Two letters that differ at most in case.
SameLetter(a, b) == a = b \/ {a, b} \in {{"A", "a"}, {"E", "e"}, {"F", "f"}}

\* Two strings that are equal when letter case is ignored.
EqualIgnoringCase(a, b) ==
  /\ Len(a) = Len(b)
  /\ \A i \in 1..Len(a) : SameLetter(a[i], b[i])

IsBlank(str) == \A i \in 1..Len(str) : str[i] = " "

\* Two strings that are equal when letter case and the blanks around the
\* first one are ignored.
EqualIgnoringCaseAndBlanks(a, b) ==
  \E i \in 1..(Len(a) + 1), j \in 0..Len(a) :
    /\ IsBlank(SubSeq(a, 1, i - 1))
    /\ IsBlank(SubSeq(a, j + 1, Len(a)))
    /\ i <= j => a[i] # " " /\ a[j] # " "
    /\ EqualIgnoringCase(SubSeq(a, i, j), b)

\* The last step was an answered request for a page of episodes.
PageAnswered ==
  /\ trace # <<>>
  /\ trace[Len(trace)].op = "episodes"
  /\ trace[Len(trace)].arg \in 1..Len(catalog.pages)
  /\ catalog.pages[trace[Len(trace)].arg].outcome = "ok"

\* The first episode of the catalog, in the order of the pages the search
\* requested and then of the page, that is Same as the requested episode
\* title decides: the search stops at its page and its numbers are the ones
\* attached to the recording (when both are non-zero); a page without such
\* an episode attaches nothing.
FirstSameDecides(Same(_, _)) ==
  PageAnswered =>
    LET data == catalog.pages[trace[Len(trace)].arg].data
        episode_name == recordings[idx].episode
        same == {i \in 1..Len(data) : Same(data[i].episodeName, episode_name)}
    IN
    /\ \A k \in Positions("episodes") :
         (k < Len(trace) /\ \A j \in k..Len(trace) : trace[j].op = "episodes") =>
           \A i \in 1..Len(catalog.pages[trace[k].arg].data) :
             ~Same(catalog.pages[trace[k].arg].data[i].episodeName, episode_name)
    /\ IF same = {}
       THEN "season_num" \notin DOMAIN recordings[idx]
       ELSE LET first == CHOOSE i \in same : \A j \in same : i <= j IN
            /\ pc = "download"
            /\ IF data[first].airedSeason # 0 /\ data[first].airedEpisodeNumber # 0
               THEN /\ "season_num" \in DOMAIN recordings[idx]
                    /\ recordings[idx].season_num = data[first].airedSeason
                    /\ recordings[idx].episode_num = data[first].airedEpisodeNumber
               ELSE "season_num" \notin DOMAIN recordings[idx]

\* Every recording found on the device comes from an item of the listing
\* whose title is the requested title, letter for letter.
TitlesExact ==
  \A r \in 1..Len(recordings) :
    /\ recordings[r].title = params.title
    /\ \E i \in 1..Len(listing) :
         /\ "Details" \in DOMAIN listing[i]
         /\ listing[i].Details.Title = params.title
         /\ "Url" \in DOMAIN listing[i]
         /\ recordings[r].link = listing[i].Url \o LinkSuffix

\* C12 as stated: the first catalog episode whose title equals the requested
\* episode title ignoring letter case determines the numbers, and no later
\* page is fetched; device titles are compared exactly.
C12_IgnoringCase == FirstSameDecides(EqualIgnoringCase) /\ TitlesExact

\* C12, amended: the catalog title is compared ignoring letter case and the
\* blanks at its two ends; the first catalog episode equal in that sense
\* determines the numbers, and no later page is fetched; device titles are
\* compared exactly, so an item whose title differs in letter case only is
\* never among the recordings.
C12_IgnoringCaseAndBlanks == FirstSameDecides(EqualIgnoringCaseAndBlanks) /\ TitlesExact

\* The listing starts with a recording titled in lower case, which was not
\* taken, and the recording that was taken got the numbers of the catalog
\* episode " e", which stands before "E" on page 1.
C12_Witness ==
  /\ listing # <<>>
  /\ listing[1] = Episode(TitleLowerA, EpisodeE)
  /\ Len(recordings) = 1
  /\ PageAnswered
  /\ catalog = CatalogBoth
  /\ "season_num" \in DOMAIN recordings[1]
  /\ recordings[1].season_num = 1
  /\ recordings[1].episode_num = 2

\* C13: main exits with changed=true if and only if a recording was
\* transferred in the run; when every recording found was skipped it exits
\* with changed=false and the message that gives their number.
C13_ChangedIffTransferred ==
  pc = "done" =>
    /\ result.kind = "exit_json"
    /\ result.changed <=> Positions("write") # {}
    /\ result.changed =>
         result = ExitJson("recording(s) downloaded successfully",
                           Cardinality(Positions("write")), TRUE)
    /\ Cardinality(Positions("skipped")) = Len(recordings) =>
         result = ExitJson("recording(s) skipped", Cardinality(Positions("skipped")), FALSE)

\* A first run found two recordings, skipped both and exited unchanged.
C13_Witness ==
  /\ pc = "done"
  /\ run = 1
  /\ Cardinality(Positions("skipped")) = 2
  /\ Positions("write") = {}
  /\ result = ExitJson("recording(s) skipped", 2, FALSE)

\* The last step was a request to the catalog.
LastCatalogRequest ==
  /\ trace # <<>>
  /\ trace[Len(trace)].op \in {"login", "series", "episodes"}

\* The outcome the last request to the catalog met.
LastCatalogOutcome ==
  LET last == trace[Len(trace)] IN
  CASE last.op = "login" -> catalog.login
    [] last.op = "series" -> catalog.series
    [] last.op = "episodes" -> PageOutcome(last.arg)

\* The error message of the caller of the last request to the catalog.
LastCatalogErrorMsg ==
  LET last == trace[Len(trace)] IN
  CASE last.op = "login" -> "The request failed attempting to login to The TVDB"
    [] last.op = "series" -> "The request failed while getting the series"
    [] last.op = "episodes" -> "The request failed getting the episodes in the series"

\* C14: a request that meets a transport-level failure (connection refused
\* or any timeout) or a non-success status ends the run with fail_json and
\* the caller's error message when fail_on_error is set, otherwise
\* requests_wrapper returns None; the failure never escapes as an unhandled
\* exception of the request.
C14_FailureHandled ==
  /\ result # Traceback("requests")
  /\ (/\ LastCatalogRequest
      /\ LastCatalogOutcome \in {"status", "connection", "timeout"}) =>
       IF params.tvdb_ignore_failure
       THEN result.kind # "fail_json"
       ELSE pc = "failed" /\ result = FailJson(LastCatalogErrorMsg)

\* ------------------------------------- strip_tivo_protection, on its own
SourceDir == <<"/", "v">>
DestDir == <<"/", "d">>

VideoA == Join(SourceDir, <<"a">> \o DotTiVo)
VideoB == Join(SourceDir, <<"b", ".", "t", "i", "v", "o">>)
OtherC == Join(SourceDir, <<"c">> \o DotMpg)
FolderD == Join(SourceDir, <<"d">> \o DotTiVo)
OutputA == Join(SourceDir, <<"a">> \o DotMpg)
OutputInDestA == Join(DestDir, <<"a">> \o DotMpg)
OutputFile == <<"/", "o">> \o DotMpg

\* The regular files and the directories a run can find.
StripFileSets ==
  SUBSET {TivoDecoderPath, VideoA, VideoB, OtherC, OutputA, OutputInDestA, OutputFile}
StripDirSets == {{SourceDir} \cup d : d \in SUBSET {FolderD, DestDir}}

InitStrip ==
  /\ stripParams \in [source : {SourceDir, VideoA, OtherC},
                       destination : {None, DestDir, OutputFile},
                       replace : BOOLEAN]
  /\ stripFiles \in StripFileSets
  /\ stripDirs \in StripDirSets
  /\ OutputInDestA \in stripFiles => DestDir \in stripDirs
  /\ stripPc = "main"
  /\ videos_to_strip = {}
  /\ videos_left = {}
  /\ videos_stripped = 0
  /\ stripResult = NoResult
  /\ stripLog = <<>>
  /\ listing = <<>>
  /\ pageSize = 1
  /\ params = Params(TitleA, None, Setup(EmptyFs, NoApiKey, FALSE, NoCatalog))
  /\ catalog = NoCatalog
  /\ destFiles = {}
  /\ skipDir = EmptyFs.skipDir
  /\ InitProgram

NextStrip ==
  \/ StripStart
  \/ StripVideo
  \/ StripSummary

SpecStrip == InitStrip /\ [][NextStrip]_vars

\* The last component of a path.
Basename(p) == SubSeq(p, RFind(p, "/") + 1, Len(p))

\* The output file of a video inside the destination folder.
OutputInside(destination, video) == Join(destination, RsplitDot(Basename(video)) \o DotMpg)

\* The source is a folder and the destination is a folder.
FolderToFolder ==
  /\ IsDir(stripParams.source)
  /\ Truthy(stripParams.destination)
  /\ IsDir(stripParams.destination)

\* C15: with a folder as source and a folder as destination, every .TiVo
\* file of the source whose stripped output does not exist yet is converted
\* into an output file of its own inside the destination folder, and the
\* run reports the number of files stripped.
C15_FolderToFolder ==
  FolderToFolder =>
    /\ \A k \in 1..Len(stripLog) :
         /\ stripLog[k].destination_path
              = OutputInside(stripParams.destination, stripLog[k].video)
         /\ stripLog[k].op = "skip" =>
              \A j \in 1..Len(stripLog) :
                stripLog[j].op = "decoded" => stripLog[j].video # stripLog[k].video
    /\ stripPc = "done" =>
         /\ \A video \in videos_to_strip :
              IsFile(OutputInside(stripParams.destination, video))
         /\ stripResult.count
              = Cardinality({k \in 1..Len(stripLog) : stripLog[k].op = "decoded"})

\* C16: when get_tivo_recording_info returns no recording, main ends with
\* fail_json 'No recordings were found', and nothing happens after it: no
\* request to the catalog, no download, no file written, no exit_json.
C16_NoRecordingsFatal ==
  [][/\ (pc = "main_463" /\ recordings = <<>>) =>
         /\ pc' = "failed"
         /\ result' = FailJson("No recordings were found")
         /\ trace' = trace
         /\ destFiles' = destFiles
         /\ download_count' = download_count
     /\ result = FailJson("No recordings were found") =>
         /\ pc = "failed"
         /\ \A k \in 1..Len(trace) : trace[k].op = "page"
         /\ UNCHANGED vars]_vars

\* Two pages of the listing were requested, no recording was found on them
\* and the run failed.
C16_Witness ==
  /\ pc = "failed"
  /\ result = FailJson("No recordings were found")
  /\ recordings = <<>>
  /\ Len(trace) >= 2
  /\ listing # <<>>

CatalogOps == {"login", "series", "episodes"}

\* The three credentials of the catalog are supplied.
CredentialsSupplied ==
  /\ params.tvdb_api_key \notin {None, <<>>}
  /\ params.tvdb_user_key \notin {None, <<>>}
  /\ params.tvdb_username \notin {None, <<>>}

HasEpisodeTitle(r) == "episode" \in DOMAIN r /\ r.episode \notin {None, <<>>}

\* The catalog is asked only with the three credentials and for a recording
\* with an episode title; any other recording has no request and no numbers.
CatalogOnlyWhenWanted ==
  /\ \A k \in 1..Len(trace) :
       /\ trace[k].op = "login" =>
            CredentialsSupplied /\ HasEpisodeTitle(recordings[trace[k].arg])
       /\ trace[k].op = "series" => trace[k - 1] = Event("login", trace[k].arg)
       /\ trace[k].op = "episodes" => trace[k - 1].op \in {"series", "episodes"}
  /\ \A i \in 1..Len(recordings) :
       ~(CredentialsSupplied /\ HasEpisodeTitle(recordings[i])) =>
         /\ Event("login", i) \notin {trace[k] : k \in 1..Len(trace)}
         /\ "season_num" \notin DOMAIN recordings[i]

\* The recording whose numbers the request at position k of the trace was for.
EnrichedAt(k) == IF trace[k].op = "episodes" THEN SearchedAt(k) ELSE trace[k].arg

\* With the request at position k, get_season_episode_num returned
\* (None, None) in tolerant mode: the login failed, or the last page of the
\* search was answered without the episode.
ResolvedAbsent(k) ==
  /\ params.tvdb_ignore_failure
  /\ \/ trace[k].op = "login" /\ catalog.login \in {"status", "connection"}
     \/ /\ trace[k].op = "episodes"
        /\ AnsweredWithout(trace[k].arg, recordings[EnrichedAt(k)].episode)
        /\ catalog.pages[trace[k].arg].next = 0

\* '{title} - {episode title}.TiVo'
PlainName(r) == r.title \o <<" ", "-", " ">> \o r.episode \o <<".", "T", "i", "V", "o">>

\* C17 as stated: the catalog is asked only with the three credentials and
\* for a recording with an episode title, any other recording is planned
\* without numbers; a recording whose resolution returned absent in tolerant
\* mode is planned under '{title} - {episode title}.TiVo' and transferred.
C17_AbsentTransferred ==
  /\ CatalogOnlyWhenWanted
  /\ \A k \in 1..Len(trace) :
       (trace[k].op \in CatalogOps /\ ResolvedAbsent(k)) =>
         LET i == EnrichedAt(k) IN
         /\ "season_num" \notin DOMAIN recordings[i]
         /\ FileName(recordings[i]) = PlainName(recordings[i])
         /\ IF k = Len(trace)
            THEN pc = "download" /\ idx = i /\ result = NoResult
            ELSE trace[k + 1] = Event("download", i)

\* C17, amended: a recording whose resolution returned absent in tolerant
\* mode is planned under '{title} - {episode title}.TiVo' and handed to
\* download_tivo_recording, which transfers it under that name unless a file
\* of that name is in dest_dir or the skip path holds its name; the rest as
\* stated.
C17_AbsentPlanned ==
  /\ CatalogOnlyWhenWanted
  /\ \A k \in 1..Len(trace) :
       (trace[k].op \in CatalogOps /\ ResolvedAbsent(k)) =>
         LET i == EnrichedAt(k) IN
         /\ "season_num" \notin DOMAIN recordings[i]
         /\ FileName(recordings[i]) = PlainName(recordings[i])
         /\ IF k = Len(trace)
            THEN pc = "download" /\ idx = i /\ result = NoResult
            ELSE \/ /\ trace[k + 1] = Event("skipped", i)
                    /\ \/ PlainName(recordings[i]) \in destFiles
                       \/ InSkipPath(PlainName(recordings[i]))
                 \/ /\ trace[k + 1] = Event("download", i)
                    /\ (k + 2 <= Len(trace) /\ trace[k + 2] = Event("write", i)) =>
                         PlainName(recordings[i]) \in destFiles
                    /\ pc # "failed" =>
                         k + 2 <= Len(trace) /\ trace[k + 2] = Event("write", i)

\* The search for an episode ended without it in tolerant mode; the
\* recording was transferred under its plain name and the run exited.
C17_Witness ==
  /\ pc = "done"
  /\ params.tvdb_ignore_failure
  /\ \E k \in 1..Len(trace) :
       /\ trace[k].op = "episodes"
       /\ ResolvedAbsent(k)
       /\ k + 2 <= Len(trace)
       /\ trace[k + 2] = Event("write", EnrichedAt(k))
       /\ PlainName(recordings[EnrichedAt(k)]) \in destFiles

\* C18: once a fatal condition is reported (the listing request or the
\* download fails, a link is malformed, a catalog request fails or finds
\* nothing with fail_on_error true), the run stops there: the step that
\* reports it writes no file, attaches no numbers and counts no download,
\* and no step follows it: no enrichment, no transfer, no sleep, no summary.
C18_FatalStops ==
  [][/\ result.kind \in {"fail_json", "exception"} => UNCHANGED vars
     /\ result'.kind = "fail_json" =>
          /\ pc' = "failed"
          /\ destFiles' = destFiles
          /\ recordings' = recordings
          /\ download_count' = download_count
     /\ (/\ LastCatalogRequest'
         /\ LastCatalogOutcome' \in {"status", "connection"}
         /\ ~params.tvdb_ignore_failure) =>
          result' = FailJson(LastCatalogErrorMsg')]_vars

\* The download of the second of three recordings failed after the first
\* was transferred: the run ended there, with the third not reached.
C18_Witness ==
  /\ pc = "failed"
  /\ result = FailJson("Downloading failed.")
  /\ Len(recordings) = 3
  /\ idx = 2
  /\ Cardinality(Positions("write")) = 1
  /\ trace[Len(trace)] = Event("download", 2)

\* Every recording has its season number and its episode number both or
\* neither.
BothOrNeither(recs) ==
  \A i \in 1..Len(recs) :
    "season_num" \in DOMAIN recs[i] <=> "episode_num" \in DOMAIN recs[i]

\* download_tivo_recording has been called for recording i in this run.
Decided(i) ==
  \E k \in 1..Len(trace) : trace[k] \in {Event("skipped", i), Event("download", i)}

\* C19: at every point of a run every recording has its season and episode
\* number both or neither; a step of the run changes a recording only by
\* attaching both numbers to one that has none, before the call of
\* download_tivo_recording for it; after that call it is not changed.
C19_NumbersTogether ==
  [][/\ BothOrNeither(recordings')
     /\ run' = run =>
          /\ Len(recordings') >= Len(recordings)
          /\ \A i \in 1..Len(recordings) :
               recordings'[i] # recordings[i] =>
                 /\ ~Decided(i)
                 /\ i = idx
                 /\ "season_num" \notin DOMAIN recordings[i]
                 /\ "episode_num" \notin DOMAIN recordings[i]
                 /\ recordings'[i] =
                      [title |-> recordings[i].title, episode |-> recordings[i].episode,
                       link |-> recordings[i].link,
                       season_num |-> recordings'[i].season_num,
                       episode_num |-> recordings'[i].episode_num]]_vars

\* The first of two recordings got its numbers and was transferred under
\* them; the second, whose episode the catalog lists on page 2, got its own.
C19_Witness ==
  /\ Len(recordings) = 2
  /\ "season_num" \in DOMAIN recordings[1]
  /\ "season_num" \in DOMAIN recordings[2]
  /\ recordings[1].episode_num # recordings[2].episode_num
  /\ Decided(1)
  /\ pc = "download"
  /\ idx = 2

\* Of two recordings of the run with the same file name for which
\* download_tivo_recording was called, the later one was skipped.
DuplicatesSkipped ==
  \A i \in 1..Len(recordings), j \in 1..Len(recordings) :
    (/\ i < j
     /\ Decided(i)
     /\ Decided(j)
     /\ FileName(recordings[i]) = FileName(recordings[j])) =>
      /\ \E k \in 1..Len(trace) : trace[k] = Event("skipped", j)
      /\ \A k \in 1..Len(trace) : trace[k] # Event("write", j)

\* C20: download_tivo_recording opens for writing only a path that did not
\* exist in dest_dir before the call, so no existing file is overwritten or
\* truncated and none is removed; of two recordings of a batch with the same
\* file name only the first is transferred, the second is skipped.
C20_NoOverwrite ==
  [][/\ \A k \in (Len(trace) + 1)..Len(trace') :
          trace'[k].op = "write" =>
            /\ FileName(recordings[trace'[k].arg]) \notin destFiles
            /\ FileName(recordings[trace'[k].arg]) \in destFiles'
     /\ destFiles \subseteq destFiles'
     /\ DuplicatesSkipped']_vars

\* Two recordings of one run have the same file name: the first was
\* transferred, the second skipped.
C20_Witness ==
  /\ run = 1
  /\ pc = "done"
  /\ Len(recordings) = 2
  /\ FileName(recordings[1]) = FileName(recordings[2])
  /\ Cardinality(Positions("write")) = 1
  /\ trace[Len(trace)] = Event("skipped", 2)

\* The episodes of the page answered last whose name is the requested one.
MatchesOnLastPage ==
  LET data == catalog.pages[trace[Len(trace)].arg].data IN
  {i \in 1..Len(data) :
     EqualIgnoringCaseAndBlanks(data[i].episodeName, recordings[idx].episode)}

\* The catalog has just resolved the episode of recording idx to season
\* number 0 or episode number 0.
ResolvedToZero ==
  /\ PageAnswered
  /\ MatchesOnLastPage # {}
  /\ LET data == catalog.pages[trace[Len(trace)].arg].data
         first == CHOOSE i \in MatchesOnLastPage : \A j \in MatchesOnLastPage : i <= j
     IN data[first].airedSeason = 0 \/ data[first].airedEpisodeNumber = 0

\* C21: when the catalog resolves an episode to season number 0 or episode
\* number 0, main attaches no numbers to the recording and the file name is
\* '{title} - {episode title}.TiVo', as if the numbers were unknown; no
\* fatal error is raised for it, with fail_on_error true or false.
C21_ZeroIsUnknown ==
  ResolvedToZero =>
    /\ pc = "download"
    /\ result = NoResult
    /\ "season_num" \notin DOMAIN recordings[idx]
    /\ "episode_num" \notin DOMAIN recordings[idx]
    /\ FileName(recordings[idx]) = PlainName(recordings[idx])

\* With fail_on_error true, the catalog resolved one recording to season 0
\* and the other to episode number 0; both were transferred under their
\* plain names and the run exited.
C21_Witness ==
  /\ ~params.tvdb_ignore_failure
  /\ catalog = CatalogSpecial
  /\ pc = "done"
  /\ Len(recordings) = 2
  /\ Cardinality(Positions("episodes")) = 2
  /\ Cardinality(Positions("write")) = 2
  /\ destFiles = {TitleA \o Dash \o EpisodeE \o DotTiVo, TitleA \o Dash \o EpisodeF \o DotTiVo}
  /\ result.changed

\* The positions of the log at which the video was removed.
RemovalsOf(video) ==
  {k \in 1..Len(stripLog) : stripLog[k].op = "remove" /\ stripLog[k].video = video}

\* C22: with replace enabled, a source file is deleted only after the
\* decoder exited with status 0 for that file in this run; a file that was
\* skipped because its output existed, or whose decoding failed, is never
\* deleted; without replace no source file is deleted.
C22_RemoveAfterDecode ==
  /\ \A k \in 1..Len(stripLog) :
       /\ stripLog[k].op = "remove" =>
            /\ stripParams.replace
            /\ k > 1
            /\ stripLog[k - 1].op = "decoded"
            /\ stripLog[k - 1].video = stripLog[k].video
       /\ stripLog[k].op \in {"skip", "decoder failed"} =>
            /\ RemovalsOf(stripLog[k].video) = {}
            /\ IsFile(stripLog[k].video)
  /\ \A video \in videos_to_strip :
       ~IsFile(video) =>
         /\ stripParams.replace
         /\ RemovalsOf(video) # {}

\* With replace enabled and a folder of two videos, one was skipped for its
\* output and kept, the other was decoded and then deleted.
C22_Witness ==
  /\ stripParams.replace
  /\ stripPc = "done"
  /\ videos_to_strip = {VideoA, VideoB}
  /\ IsFile(VideoA)
  /\ ~IsFile(VideoB)
  /\ \E k \in 1..Len(stripLog) : stripLog[k] = StripEvent("skip", VideoA, OutputA)
  /\ RemovalsOf(VideoB) # {}

====
